---- MODULE Spec2Model ----
(***************************************************************************)
(* Penalized hierarchical linkage clustering (John Chen's heuristic), the  *)
(* example-overlap variant of utils/embeddings/clustering-linkage-jc.py    *)
(* (the core of src/utils/embeddings/clustering_linkage-jc.py is the same).*)
(*                                                                         *)
(* One behaviour is one run of the script: arguments and inputs are read,  *)
(* pairwise distances are computed and condensed, the overlap penalty is   *)
(* added to the square matrix in place, the linkage is computed, the tree  *)
(* is annotated bottom-up, traversed top-down and the result is printed.   *)
(*                                                                         *)
(* Numbers are exact fixed-point integers: 1.0 is One, the coarse grid is  *)
(* 0.05 and every coarse step is divided into Den fine units so that the   *)
(* squared ratios a/u (u <= 4) of the overlap penalty stay integral and    *)
(* that 0.01, the step of the calibration markers, is a whole number of    *)
(* fine units.                                                             *)
(*                                                                         *)
(* Two more scripts share the state: the interactive calibration of        *)
(* src/utils/embeddings/clustering_linkage-jc.py (SpecInteractive) and the *)
(* size variant analysis/embeddings/clustering-linkage-jc.py (SpecSize).   *)
(***************************************************************************)
EXTENDS Integers, FiniteSets, Sequences, TLC

\* ------------------------------------------------------------------ bounds

\* Largest number of items of a run.
MaxItems == 4

\* ------------------------------------------------------------ fixed point

\* Fine units per coarse step: 5 * lcm(1..4)^2, divisible by u*u for every
\* union size u of two example sets of at most two elements each, and by 5
\* (a coarse step is five hundredths).
Den == (2 * 2 * 3) * (2 * 2 * 3) * 5

\* Fine units of a number given on the coarse grid (steps of 0.05).
Fine(x) == x * Den

\* The number 1 (of "1 - node.dist" and of the initial probability).
One == Fine(4 * 5)

Max2(a, b) == IF a >= b THEN a ELSE b

Min2(a, b) == IF a <= b THEN a ELSE b

Abs(x) == IF x >= 0 THEN x ELSE 0 - x

\* ------------------------------------------------------------------ inputs

\* Item ids of a run of n items (0-based, as in the script).
Idx(n) == 0 .. (n - 1)

\* Coordinates of the (one-dimensional) embeddings, on the coarse grid.
Positions == {0, 2, 14, 18, 24}

\* Embeddings of n items: pairwise distinct coordinates.
EmbeddingChoices(n) ==
    {e \in [Idx(n) -> Positions] : \A i, j \in Idx(n) : i # j => e[i] # e[j]}

\* Example sets of n items, one assignment per family.
ExampleChoices(n) ==
    { [i \in Idx(n) |-> {1, 2}],                  \* identical sets
      [i \in Idx(n) |-> {2 * i + 1, 2 * i + 2}],  \* pairwise disjoint pairs
      [i \in Idx(n) |-> {i, i + 1}],              \* overlapping chain
      [i \in Idx(n) |-> {i + 1}],                 \* disjoint singletons
      [i \in Idx(n) |-> {}],                      \* no examples at all
      [i \in Idx(n) |->                           \* sets of unequal size
          IF i % 2 = 0 THEN {1} ELSE {1, 2}] }

\* <<MaxDistance, MinDistance>> as given on the command line (coarse grid);
\* the last pair has MinDistance > MaxDistance.
ThresholdChoices == {<<10, 1>>, <<14, 1>>, <<13, 8>>, <<26, 8>>, <<8, 13>>}

\* Linkage methods with integral Lance-Williams updates.
LinkageChoices == {"single", "complete"}

VARIABLES
    pc,                   \* position of the script
    Items,                \* number of items
    embeddings,           \* [item -> coordinate]
    examples,             \* [item -> set of example ids]
    MaxDistance,          \* fine units
    MinDistance,          \* fine units
    Linkage,              \* linkage method
    distances,            \* square matrix [i][j], mutated in place by the penalty loop
    condensed_distances,  \* condensed copy taken before the penalty loop
    avg_size,             \* <<sum, count>> of the sizes > 1; count 0 is nan
    linkages,             \* rows of the linkage matrix, in merge order
    members,              \* linkage work state: active cluster id -> leaf set
    tree_examples,        \* [internal node id -> union of example sets]
    cluster_index,        \* the global cluster counter
    clusters,             \* [item -> cluster id]
    probs,                \* [item -> probability, fine units]
    colors,               \* [visited node id -> colour]
    stack,                \* pending traverse calls, top first
    nodes,                \* leaves counted by the traversal so far
    cuts,                 \* history: the nodes made cluster roots
    runs,                 \* history: results of completed traversals
    output,               \* what was printed, <<>> when nothing yet
    interactive,          \* calibration: the interactive flag (argv[7])
    update_max,           \* calibration: the next click moves the max marker
    max_table_data,       \* calibration: rows of the table of the max threshold
    min_table_data,       \* calibration: rows of the table of the min threshold
    events,               \* history: the GUI events handled so far
    sizes,                \* size variant: [item -> size]
    std_size,             \* size variant: <<v, count>>, sqrt(v)/count; count 0 is nan
    leaf_sizes            \* size variant: [internal node id -> summed size]

vars == <<pc, Items, embeddings, examples, MaxDistance, MinDistance, Linkage,
          distances, condensed_distances, avg_size, linkages, members,
          tree_examples, cluster_index, clusters, probs, colors, stack, nodes,
          cuts, runs, output, interactive, update_max, max_table_data,
          min_table_data, events, sizes, std_size, leaf_sizes>>

\* The state of the calibration window.
gui == <<interactive, update_max, max_table_data, min_table_data, events>>

\* The state that only the size variant has.
sizestate == <<sizes, std_size, leaf_sizes>>

inputs == <<Items, embeddings, examples, MaxDistance, MinDistance, Linkage>>

\* MaxDistance - MinDistance (the global Penalty / g_penalty).
Penalty == MaxDistance - MinDistance

\* ---------------------------------------------------------------- start-up

None == <<>>

Init ==
    /\ pc = "distances"
    /\ Items \in 0 .. MaxItems
    /\ embeddings \in EmbeddingChoices(Items)
    /\ examples \in ExampleChoices(Items)
    /\ \E t \in ThresholdChoices :
          /\ MaxDistance = Fine(t[1])
          /\ MinDistance = Fine(t[2])
    /\ Linkage \in LinkageChoices
    /\ distances = None
    /\ condensed_distances = None
    /\ avg_size = <<0, 0>>
    /\ linkages = <<>>
    /\ members = None
    /\ tree_examples = None
    /\ cluster_index = 0
    /\ clusters = None
    /\ probs = None
    /\ colors = None
    /\ stack = <<>>
    /\ nodes = 0
    /\ cuts = {}
    /\ runs = <<>>
    /\ output = None
    /\ interactive = FALSE
    /\ update_max = TRUE
    /\ max_table_data = None
    /\ min_table_data = None
    /\ events = <<>>
    /\ sizes = None
    /\ std_size = <<0, 0>>
    /\ leaf_sizes = None

\* ------------------------------------------------- distances and condensing

\* pairwise_distances(embeddings, embeddings, metric): the metric in one
\* dimension, in fine units.
PairwiseDistances(e, n) ==
    [i \in Idx(n) |-> [j \in Idx(n) |-> Fine(Abs(e[i] - e[j]))]]

\* Number of entries of the condensed form of an n x n matrix.
CondensedLen(n) == (n * (n - 1)) \div 2

\* Index of the pair i < j in the condensed form (row-major upper triangle).
CondensedIndex(i, j, n) == n * i - ((i * (i + 1)) \div 2) + (j - i - 1)

\* squareform(m): a NEW vector holding the upper triangle of m.
Squareform(m, n) ==
    [k \in 0 .. (CondensedLen(n) - 1) |->
        LET p == CHOOSE q \in Idx(n) \X Idx(n) :
                    q[1] < q[2] /\ CondensedIndex(q[1], q[2], n) = k
        IN  m[p[1]][p[2]]]

RECURSIVE SumSizes(_, _)
\* Sum of the sizes > 1 of the example sets of the items in s.
SumSizes(ex, s) ==
    IF s = {} THEN 0
    ELSE LET i == CHOOSE x \in s : TRUE
             c == Cardinality(ex[i])
         IN  (IF c > 1 THEN c ELSE 0) + SumSizes(ex, s \ {i})

\* sizes_for_calc and np.mean of it, kept as <<sum, count>>; count 0 is the
\* nan that np.mean gives for an empty list.
AvgSize(ex, n) ==
    <<SumSizes(ex, Idx(n)), Cardinality({i \in Idx(n) : Cardinality(ex[i]) > 1})>>

\* Lines 51-62: distances, their condensed copy, and the size statistics.
\* pairwise_distances rejects an array of no items (ValueError).
ComputeDistances ==
    /\ pc = "distances"
    /\ IF Items = 0
       THEN /\ pc' = "ValueError"
            /\ UNCHANGED <<distances, condensed_distances, avg_size>>
       ELSE /\ distances' = PairwiseDistances(embeddings, Items)
            /\ condensed_distances' = Squareform(distances', Items)
            /\ avg_size' = AvgSize(examples, Items)
            /\ pc' = "penalty"
    /\ UNCHANGED <<inputs, gui, sizestate, linkages, members, tree_examples, cluster_index,
                   clusters, probs, colors, stack, nodes, cuts, runs, output>>

\* ------------------------------------------------------------ penalty loop

\* count_merged(code1, code2) as numerator and denominator.
CountMergedNum(i, j) == Cardinality(examples[i] \ examples[j])

CountMergedDen(i, j) == Cardinality(examples[i] \union examples[j])

\* The guard of the penalty loop on the entry's current value.
Qualifies(d) == d > MinDistance

\* Mutant of PenalizedDistance: the ratio is not squared.
PenalizedDistanceUnsquared(d, i, j) ==
    d + ((CountMergedNum(i, j) * Penalty) \div CountMergedDen(i, j))

\* distances[i][j] += penalty * Penalty with penalty = count_merged(i, j)^2.
PenalizedDistance(d, i, j) ==
    d + ((CountMergedNum(i, j) * CountMergedNum(i, j) * Penalty)
            \div (CountMergedDen(i, j) * CountMergedDen(i, j)))

\* Position of the entry (i, j) in the order of the two nested loops.
LoopOrder(i, j) == i * Items + j

\* The entries at which count_merged divides by zero.
DivisionByZeroAt ==
    {p \in Idx(Items) \X Idx(Items) :
        /\ Qualifies(distances[p[1]][p[2]])
        /\ CountMergedDen(p[1], p[2]) = 0}

\* The matrix after the loop has handled the entries before position stop.
PenaltyLoopUpTo(stop) ==
    [i \in Idx(Items) |-> [j \in Idx(Items) |->
        IF LoopOrder(i, j) < stop /\ Qualifies(distances[i][j])
        THEN PenalizedDistance(distances[i][j], i, j)
        ELSE distances[i][j]]]

\* Lines 72-78: the loop completes, or stops at the first division by zero
\* (ZeroDivisionError) with the entries before it already changed.
PenaltyLoop ==
    /\ pc = "penalty"
    /\ IF DivisionByZeroAt = {}
       THEN /\ distances' = PenaltyLoopUpTo(Items * Items)
            /\ pc' = "linkage"
       ELSE LET p == CHOOSE q \in DivisionByZeroAt :
                        \A r \in DivisionByZeroAt :
                            LoopOrder(q[1], q[2]) <= LoopOrder(r[1], r[2])
            IN  /\ distances' = PenaltyLoopUpTo(LoopOrder(p[1], p[2]))
                /\ pc' = "ZeroDivisionError"
    /\ UNCHANGED <<inputs, gui, sizestate, condensed_distances, avg_size, linkages, members,
                   tree_examples, cluster_index, clusters, probs, colors,
                   stack, nodes, cuts, runs, output>>

\* ------------------------------------------------------------------ linkage

\* Mutant of LinkageInput: the square matrix is condensed at the call, after
\* the penalty loop has changed it.
LinkageInputAdjusted == Squareform(distances, Items)

\* The vector handed to linkage(): the condensed copy taken at line 55.
LinkageInput == condensed_distances

\* Entry of a condensed vector for the unordered pair of items i # j.
CondensedAt(y, i, j) == y[CondensedIndex(Min2(i, j), Max2(i, j), Items)]

\* Distances between the leaves of two clusters.
CrossDistances(y, sa, sb) == {CondensedAt(y, i, j) : i \in sa, j \in sb}

SetMin(s) == CHOOSE x \in s : \A z \in s : x <= z

SetMax(s) == CHOOSE x \in s : \A z \in s : x >= z

\* Distance of two clusters under the linkage method.
ClusterDist(y, sa, sb) ==
    IF Linkage = "single" THEN SetMin(CrossDistances(y, sa, sb))
    ELSE SetMax(CrossDistances(y, sa, sb))

\* Line 81, entry of linkage(): an empty condensed vector (one item) is
\* rejected with an error, otherwise every item starts as its own cluster.
LinkageCall ==
    /\ pc = "linkage"
    /\ IF CondensedLen(Items) = 0
       THEN /\ pc' = "ValueError"
            /\ members' = members
       ELSE /\ pc' = "merging"
            /\ members' = [i \in Idx(Items) |-> {i}]
    /\ UNCHANGED <<inputs, gui, sizestate, distances, condensed_distances, avg_size, linkages,
                   tree_examples, cluster_index, clusters, probs, colors,
                   stack, nodes, cuts, runs, output>>

\* Line 81, one agglomeration step: two closest active clusters a < b are
\* merged into the cluster Items + (number of merges so far); ties are
\* broken in any way.
LinkageMerge ==
    /\ pc = "merging"
    /\ \E a, b \in DOMAIN members :
          /\ a < b
          /\ LET d == ClusterDist(LinkageInput, members[a], members[b])
                 id == Items + Len(linkages)
             IN  /\ \A c, e \in DOMAIN members :
                        c < e => d <= ClusterDist(LinkageInput, members[c], members[e])
                 /\ linkages' = Append(linkages,
                        [left |-> a, right |-> b, dist |-> d,
                         count |-> Cardinality(members[a] \union members[b])])
                 /\ members' = [k \in (DOMAIN members \ {a, b}) \union {id} |->
                                   IF k = id THEN members[a] \union members[b]
                                   ELSE members[k]]
    /\ pc' = IF Len(linkages') = Items - 1 THEN "pre_traverse" ELSE "merging"
    /\ UNCHANGED <<inputs, gui, sizestate, distances, condensed_distances, avg_size,
                   tree_examples, cluster_index, clusters, probs, colors,
                   stack, nodes, cuts, runs, output>>

\* --------------------------------------------------------- to_tree(linkages)

IsLeaf(n) == n < Items

Root == 2 * Items - 2

InternalNodes == Items .. Root

Left(n) == linkages[n - Items + 1].left

Right(n) == linkages[n - Items + 1].right

\* node.dist
Dist(n) == linkages[n - Items + 1].dist

RECURSIVE TreeExamples(_)
\* pre_traverse(node): the union of the example sets under the node.
TreeExamples(n) ==
    IF IsLeaf(n) THEN examples[n]
    ELSE TreeExamples(Left(n)) \union TreeExamples(Right(n))

\* A call of traverse(node, depth, cluster, prob, color) still to be made.
Call(n, c, p, col) == [node |-> n, cluster |-> c, prob |-> p, color |-> col]

\* Mutant of ClusterIndexAtStart: the counter is not set back, it keeps the
\* value it has.
ClusterIndexKept == cluster_index

\* cluster_index = 0 (line 100)
ClusterIndexAtStart == 0

\* Lines 82-103 and the call at line 138: the tree annotation, the initial
\* counter and result arrays, and the first call traverse(root, 0).
PreTraverse ==
    /\ pc = "pre_traverse"
    /\ tree_examples' = [n \in InternalNodes |-> TreeExamples(n)]
    /\ cluster_index' = ClusterIndexAtStart
    /\ clusters' = [i \in Idx(Items) |-> -1]
    /\ probs' = [i \in Idx(Items) |-> One]
    /\ colors' = None
    /\ stack' = <<Call(Root, -1, One, "#cccccc")>>
    /\ nodes' = 0
    /\ pc' = "traverse"
    /\ UNCHANGED <<inputs, gui, sizestate, distances, condensed_distances, avg_size, linkages,
                   members, cuts, runs, output>>

\* ----------------------------------------------------------------- traverse

\* (len(tree_examples[node.id]) - avg_size) / penalty_coff with
\* penalty_coff = 3 * avg_size - avg_size, clamped by min(1, max(0, .)), as a
\* numerator over PenaltyRatioDen.  With avg_size nan the ratio is nan and
\* max(0, nan) is 0.
PenaltyRatioNum(n) ==
    IF avg_size[2] = 0 THEN 0
    ELSE Min2(2 * avg_size[1],
              Max2(0, Cardinality(tree_examples[n]) * avg_size[2] - avg_size[1]))

PenaltyRatioDen == IF avg_size[2] = 0 THEN 1 ELSE 2 * avg_size[1]

\* Denominator of criteria: the squared ratio's.
CriteriaDen == PenaltyRatioDen * PenaltyRatioDen

\* Mutant of Criteria: the floor max(., MinDistance) is forgotten.
CriteriaWithoutFloor(n) ==
    MaxDistance * CriteriaDen - PenaltyRatioNum(n) * PenaltyRatioNum(n) * Penalty

\* Mutant of Criteria: the penalty is added instead of subtracted.
CriteriaSignFlipped(n) ==
    Max2(MaxDistance * CriteriaDen + PenaltyRatioNum(n) * PenaltyRatioNum(n) * Penalty,
         MinDistance * CriteriaDen)

\* criteria = max(MaxDistance - penalty * Penalty, MinDistance) with
\* penalty the squared ratio, as a numerator over CriteriaDen.
Criteria(n) ==
    Max2(MaxDistance * CriteriaDen - PenaltyRatioNum(n) * PenaltyRatioNum(n) * Penalty,
         MinDistance * CriteriaDen)

\* Mutant of IsCut: the merge distance must be strictly below the criteria.
IsCutStrict(cluster, n) ==
    cluster = -1 /\ Dist(n) * CriteriaDen < Criteria(n)

\* Mutant of IsCut: the test "cluster == -1" is forgotten.
IsCutIgnoringCluster(cluster, n) == Dist(n) * CriteriaDen <= Criteria(n)

\* cluster == -1 and node.dist <= criteria
IsCut(cluster, n) == cluster = -1 /\ Dist(n) * CriteriaDen <= Criteria(n)

\* Mutant of CutProb: the clamp max(., 0) is forgotten.
CutProbUnclamped(n) == One - Dist(n)

\* prob = max(1 - node.dist, 0)
CutProb(n) == Max2(One - Dist(n), 0)

\* Mutant of ChildCalls: only the left child is traversed.
ChildCallsLeftOnly(n, c, p, col) ==
    <<Call(Left(n), c, p, col)>>

\* Mutant of ChildCalls: the left child is traversed twice, the right child
\* never.
ChildCallsLeftTwice(n, c, p, col) ==
    <<Call(Left(n), c, p, col), Call(Left(n), c, p, col)>>

\* Mutant of ChildCalls: the right child is traversed first.
ChildCallsRightFirst(n, c, p, col) ==
    <<Call(Right(n), c, p, col), Call(Left(n), c, p, col)>>

\* The two recursive calls, the left child's first.
ChildCalls(n, c, p, col) ==
    <<Call(Left(n), c, p, col), Call(Right(n), c, p, col)>>

\* Lines 106-135: one call of traverse, up to its recursive calls.
TraverseCall ==
    /\ pc = "traverse"
    /\ stack # <<>>
    /\ LET f == Head(stack)
           n == f.node
       IN  IF IsLeaf(n)
           THEN /\ clusters' = [clusters EXCEPT ![n] = f.cluster]
                /\ probs' = [probs EXCEPT ![n] = f.prob]
                /\ colors' = [k \in DOMAIN colors \union {n} |->
                                 IF k = n THEN f.color ELSE colors[k]]
                /\ nodes' = nodes + 1
                /\ stack' = Tail(stack)
                /\ UNCHANGED <<cluster_index, cuts>>
           ELSE LET cut == IsCut(f.cluster, n)
                    c == IF cut THEN cluster_index ELSE f.cluster
                    p == IF cut THEN CutProb(n) ELSE f.prob
                    col == IF cut THEN "#000000" ELSE f.color
                IN  /\ cluster_index' = IF cut THEN cluster_index + 1 ELSE cluster_index
                    /\ cuts' = IF cut
                               THEN cuts \union {[node |-> n, cluster |-> c, prob |-> p]}
                               ELSE cuts
                    /\ colors' = [k \in DOMAIN colors \union {n} |->
                                     IF k = n THEN col ELSE colors[k]]
                    /\ stack' = ChildCalls(n, c, p, col) \o Tail(stack)
                    /\ UNCHANGED <<clusters, probs, nodes>>
    /\ pc' = IF stack' = <<>> THEN "emit" ELSE "traverse"
    /\ runs' = IF stack' = <<>> THEN Append(runs, <<clusters', probs'>>) ELSE runs
    /\ UNCHANGED <<inputs, gui, sizestate, distances, condensed_distances, avg_size, linkages,
                   members, tree_examples, output>>

\* Line 172: print(json.dumps([clusters.tolist(), probs.tolist()])).
Emit ==
    /\ pc = "emit"
    /\ output' = <<clusters, probs>>
    /\ pc' = "done"
    /\ UNCHANGED <<inputs, gui, sizestate, distances, condensed_distances, avg_size, linkages,
                   members, tree_examples, cluster_index, clusters, probs,
                   colors, stack, nodes, cuts, runs>>

Next ==
    \/ ComputeDistances
    \/ PenaltyLoop
    \/ LinkageCall
    \/ LinkageMerge
    \/ PreTraverse
    \/ TraverseCall
    \/ Emit

Spec == Init /\ [][Next]_vars

\* Lines 99-138 executed a second time on the same tree with the same
\* parameters: the counter and the result arrays are initialised again and
\* traverse(root, 0) is called again.
SelectorAgain ==
    /\ pc = "emit"
    /\ Len(runs) = 1
    /\ cluster_index' = ClusterIndexAtStart
    /\ clusters' = [i \in Idx(Items) |-> -1]
    /\ probs' = [i \in Idx(Items) |-> One]
    /\ colors' = None
    /\ stack' = <<Call(Root, -1, One, "#cccccc")>>
    /\ nodes' = 0
    /\ cuts' = {}
    /\ pc' = "traverse"
    /\ UNCHANGED <<inputs, gui, sizestate, distances, condensed_distances, avg_size, linkages,
                   members, tree_examples, runs, output>>

NextTwice ==
    \/ Next
    \/ SelectorAgain

\* The script, with the Selector possibly run twice.
SpecTwice == Init /\ [][NextTwice]_vars

\* =================================================================== claims

\* The traversal from the root has returned.
Traversed == pc \in {"emit", "done"}

RECURSIVE Leaves(_)
\* The items under a node.
Leaves(n) == IF IsLeaf(n) THEN {n} ELSE Leaves(Left(n)) \union Leaves(Right(n))

RECURSIVE InternalUnder(_)
\* The internal nodes of the subtree of n, n included.
InternalUnder(n) ==
    IF IsLeaf(n) THEN {}
    ELSE {n} \union InternalUnder(Left(n)) \union InternalUnder(Right(n))

\* The internal nodes strictly above node n.
InternalAbove(n) == {a \in InternalNodes : a # n /\ n \in InternalUnder(a) \union Leaves(a)}

RECURSIVE PreOrder(_)
\* The nodes of the subtree of n in pre-order, left child first.
PreOrder(n) ==
    IF IsLeaf(n) THEN <<n>> ELSE <<n>> \o PreOrder(Left(n)) \o PreOrder(Right(n))

\* Position of node n in the pre-order walk of the whole tree.
PreOrderPos(n) == CHOOSE k \in 1 .. Len(PreOrder(Root)) : PreOrder(Root)[k] = n

\* The penalty ratio is 0 at every node (no item has more than one example,
\* or no node's union of examples is larger than the average size), so that
\* with minDistance <= maxDistance the criteria is maxDistance everywhere.
ZeroPenaltyEverywhere ==
    /\ MinDistance <= MaxDistance
    /\ \/ avg_size[2] = 0
       \/ \A n \in InternalNodes :
             Cardinality(TreeExamples(n)) * avg_size[2] <= avg_size[1]

\* The topmost internal nodes whose merge distance is at most MaxDistance.
TopmostUnderMax ==
    {n \in InternalNodes :
        /\ Dist(n) <= MaxDistance
        /\ \A a \in InternalAbove(n) : Dist(a) > MaxDistance}

\* The tree ((A,B)@0.1, (C,D)@0.2)@0.6 over the items A=0, B=1, C=2, D=3.
ScenarioTree ==
    /\ Items = 4
    /\ linkages = << [left |-> 0, right |-> 1, dist |-> Fine(2), count |-> 2],
                     [left |-> 2, right |-> 3, dist |-> Fine(4), count |-> 2],
                     [left |-> 4, right |-> 5, dist |-> Fine(12), count |-> 4] >>

\* C1 as stated (probability 1 - mergeDistance, unclamped): with penalty
\* ratio 0 at every node, each topmost internal node with mergeDistance <=
\* maxDistance is one cluster, the clusters are numbered 0, 1, ... in
\* pre-order (left first) and every leaf of a cluster has probability
\* 1 - mergeDistance of that node.
C1_AsStated ==
    (Traversed /\ ZeroPenaltyEverywhere) =>
        \A n \in TopmostUnderMax : \A l \in Leaves(n) :
            /\ clusters[l] =
                  Cardinality({m \in TopmostUnderMax : PreOrderPos(m) < PreOrderPos(n)})
            /\ probs[l] = One - Dist(n)

\* C1 (amended): with penalty ratio 0 at every node, each topmost internal
\* node with mergeDistance <= maxDistance is one cluster, the clusters are
\* numbered 0, 1, ... in pre-order (left first) and every leaf of a cluster
\* has probability max(1 - mergeDistance, 0) of that node; on the 4-leaf
\* scenario tree with minDistance 0.05, maxDistance 0.5 gives clusters
\* [0,0,1,1] with probabilities [0.9,0.9,0.8,0.8] and maxDistance 0.7 gives
\* one cluster 0 with probability 0.4.
C1_ZeroPenaltyCut ==
    (Traversed /\ ZeroPenaltyEverywhere) =>
        /\ \A n \in TopmostUnderMax : \A l \in Leaves(n) :
              /\ clusters[l] =
                    Cardinality({m \in TopmostUnderMax : PreOrderPos(m) < PreOrderPos(n)})
              /\ probs[l] = IF Dist(n) <= One THEN One - Dist(n) ELSE 0
        /\ (ScenarioTree /\ MinDistance = Fine(1) /\ MaxDistance = Fine(10)) =>
              /\ clusters = [i \in 0 .. 3 |-> IF i < 2 THEN 0 ELSE 1]
              /\ probs = [i \in 0 .. 3 |-> IF i < 2 THEN Fine(18) ELSE Fine(16)]
        /\ (ScenarioTree /\ MinDistance = Fine(1) /\ MaxDistance = Fine(14)) =>
              /\ clusters = [i \in 0 .. 3 |-> 0]
              /\ probs = [i \in 0 .. 3 |-> Fine(8)]

\* Witness of C1: the scenario with maxDistance 0.5 has been traversed and
\* printed, with two clusters.
C1_Witness ==
    /\ pc = "done"
    /\ ZeroPenaltyEverywhere
    /\ ScenarioTree
    /\ MinDistance = Fine(1)
    /\ MaxDistance = Fine(10)
    /\ cluster_index = 2

\* C2: after the traversal both result arrays have exactly one entry per
\* item and every probability lies in [0, 1].
C2_ArraysAndProbabilityRange ==
    Traversed =>
        /\ DOMAIN clusters = Idx(Items)
        /\ DOMAIN probs = Idx(Items)
        /\ \A i \in Idx(Items) : 0 <= probs[i] /\ probs[i] <= One

\* Witness of C2: a node merged at a distance above 1 was made a cluster,
\* so the clamp of the probability at 0 was needed.
C2_Witness ==
    /\ pc = "done"
    /\ \E c \in cuts : Dist(c.node) > One /\ \A l \in Leaves(c.node) : probs[l] = 0

\* C3: once an internal node is a cluster root, every leaf under it ends
\* with that node's cluster id and probability, and no internal node below
\* it starts a cluster of its own.
C3_ClusterSubtreeMonotone ==
    Traversed =>
        \A c \in cuts :
            /\ \A l \in Leaves(c.node) :
                  clusters[l] = c.cluster /\ probs[l] = c.prob
            /\ \A d \in cuts : d.node \in InternalUnder(c.node) => d = c

\* Witness of C3: a cluster root has an internal node below it whose own
\* merge distance is within its own criteria.
C3_Witness ==
    /\ pc = "done"
    /\ \E c \in cuts : \E d \in InternalUnder(c.node) :
          d # c.node /\ Dist(d) * CriteriaDen <= Criteria(d)

C5_ThresholdFloor ==
    Traversed =>
        \A n \in InternalNodes :
            Dist(n) < MinDistance => \A l \in Leaves(n) : clusters[l] # -1

\* Witness of C5: a node merged below minDistance, with a positive penalty
\* ratio, whose leaves are clustered.
C5_Witness ==
    /\ pc = "done"
    /\ \E n \in InternalNodes :
          /\ Dist(n) < MinDistance
          /\ PenaltyRatioNum(n) > 0
          /\ \A l \in Leaves(n) : clusters[l] # -1

\* The tree annotation exists, so a criteria is defined at every internal node.
Annotated == pc \in {"traverse", "emit", "done"}

\* C6: given minDistance <= maxDistance, the criteria of every internal node
\* lies in [minDistance, maxDistance], and no node is made a cluster root at
\* a merge distance above maxDistance.
C6_CriteriaBounds ==
    (Annotated /\ MinDistance <= MaxDistance) =>
        /\ \A n \in InternalNodes :
              /\ MinDistance * CriteriaDen <= Criteria(n)
              /\ Criteria(n) <= MaxDistance * CriteriaDen
        /\ \A c \in cuts : Dist(c.node) <= MaxDistance

\* Witness of C6: a cluster root whose criteria lies strictly between the
\* two thresholds.
C6_Witness ==
    /\ pc = "done"
    /\ MinDistance <= MaxDistance
    /\ \E c \in cuts :
          /\ MinDistance * CriteriaDen < Criteria(c.node)
          /\ Criteria(c.node) < MaxDistance * CriteriaDen

\* The distances as computed, before the penalty loop.
RawDistances == PairwiseDistances(embeddings, Items)

\* The penalty loop has completed.
PenaltyDone == pc \notin {"distances", "penalty", "ZeroDivisionError"}

\* Two items with disjoint non-empty example sets.
DisjointNonEmpty(i, j) ==
    /\ examples[i] # {}
    /\ examples[j] # {}
    /\ examples[i] \intersect examples[j] = {}

\* C7 as stated: every entry with raw distance > minDistance gets
\* (|ex_i \ ex_j| / |ex_i U ex_j|)^2 * (maxDistance - minDistance) added, and
\* a pair with disjoint non-empty example sets gets the full penalty range.
C7_AsStated ==
    PenaltyDone =>
        \A i, j \in Idx(Items) :
            RawDistances[i][j] > MinDistance =>
                /\ (distances[i][j] - RawDistances[i][j])
                        * CountMergedDen(i, j) * CountMergedDen(i, j)
                     = CountMergedNum(i, j) * CountMergedNum(i, j) * Penalty
                /\ DisjointNonEmpty(i, j) =>
                      distances[i][j] = RawDistances[i][j] + Penalty

\* C7 (amended): every entry with raw distance > minDistance gets
\* (|ex_i \ ex_j| / |ex_i U ex_j|)^2 * (maxDistance - minDistance) added and
\* every other entry is unchanged; a pair with disjoint non-empty example
\* sets gets (|ex_i| / (|ex_i| + |ex_j|))^2 of the penalty range; the loop
\* does not complete when a qualifying pair has two empty example sets.
C7_OverlapPenalty ==
    PenaltyDone =>
        LET raw == RawDistances
        IN  \A i, j \in Idx(Items) :
                LET added == distances[i][j] - raw[i][j]
                    den == CountMergedDen(i, j)
                    num == CountMergedNum(i, j)
                    both == Cardinality(examples[i]) + Cardinality(examples[j])
                IN  IF raw[i][j] > MinDistance
                    THEN /\ den # 0
                         /\ added * den * den = num * num * Penalty
                         /\ DisjointNonEmpty(i, j) =>
                               added * both * both
                                 = Cardinality(examples[i]) * Cardinality(examples[i])
                                      * Penalty
                    ELSE added = 0

\* Witness of C7: the loop has completed on a pair with disjoint non-empty
\* example sets and raw distance 0.3 > minDistance, whose entry was changed.
C7_Witness ==
    /\ pc = "linkage"
    /\ \E i, j \in Idx(Items) :
          /\ RawDistances[i][j] = Fine(6)
          /\ RawDistances[i][j] > MinDistance
          /\ DisjointNonEmpty(i, j)
          /\ distances[i][j] # RawDistances[i][j]

\* C8: the condensed distances handed to the merge tree builder are the
\* original ones also after the penalty loop has changed the square matrix,
\* and every merge distance of the tree is the linkage distance of the
\* node's two children computed on the original distances.
C8_TreeFromOriginalDistances ==
    LET raw == RawDistances
    IN  /\ pc # "distances" =>
              /\ DOMAIN condensed_distances = 0 .. (CondensedLen(Items) - 1)
              /\ \A i, j \in Idx(Items) :
                    i < j => condensed_distances[CondensedIndex(i, j, Items)]
                                = raw[i][j]
        /\ \A k \in 1 .. Len(linkages) :
              LET between == {raw[i][j] : i \in Leaves(linkages[k].left),
                                         j \in Leaves(linkages[k].right)}
              IN  linkages[k].dist =
                      IF Linkage = "single" THEN SetMin(between)
                      ELSE SetMax(between)

\* Witness of C8: the tree was built and traversed after the penalty loop
\* had changed an entry of the upper triangle of the square matrix.
C8_Witness ==
    /\ pc = "done"
    /\ \E i, j \in Idx(Items) : i < j /\ distances[i][j] # RawDistances[i][j]

\* The merge distance a node would have on the penalty-adjusted matrix.
AdjustedDist(n) ==
    ClusterDist(Squareform(distances, Items), Leaves(Left(n)), Leaves(Right(n)))

\* C9: the cut decision at a node is taken on the penalty-adjusted
\* distances: with minDistance <= maxDistance, a node reached outside any
\* cluster is made a cluster root exactly when its merge distance on the
\* adjusted matrix is within its criteria.
C9_AdjustedDistancesDecide ==
    (Traversed /\ MinDistance <= MaxDistance) =>
        \A n \in InternalNodes :
            (\A c \in cuts : c.node \notin InternalAbove(n)) =>
                ((\E c \in cuts : c.node = n)
                    <=> AdjustedDist(n) * CriteriaDen <= Criteria(n))

\* C10: with minDistance > maxDistance the run stops before the penalty
\* loop and the traversal, and nothing is printed.
C10_AbortOnMinAboveMax ==
    MinDistance > MaxDistance =>
        /\ pc \in {"distances", "penalty"}
        /\ output = None

\* C12: the asymmetric Jaccard delta of a pair whose example sets are both
\* empty is 0, as for a pair with identical example sets: the Adjuster does
\* not fail, and once it is done it has added nothing to the entry of such a
\* pair.
C12_EmptyPairDeltaZero ==
    /\ pc # "ZeroDivisionError"
    /\ PenaltyDone =>
          \A i, j \in Idx(Items) :
              (examples[i] = examples[j]) =>
                  distances[i][j] = RawDistances[i][j]

\* C14: no partial output. The result is printed only after the traversal
\* has returned and has assigned every one of the N leaves; what is printed
\* is the two complete arrays of length N; a run that stopped at an earlier
\* step with an error has printed nothing.
C14_NoPartialOutput ==
    /\ output # None =>
          /\ pc = "done"
          /\ stack = <<>>
          /\ nodes = Items
          /\ Idx(Items) \subseteq DOMAIN colors
          /\ output = <<clusters, probs>>
          /\ DOMAIN output[1] = Idx(Items)
          /\ DOMAIN output[2] = Idx(Items)
    /\ pc \in {"ZeroDivisionError", "ValueError"} => output = None
    /\ pc \notin {"done"} => output = None

\* Witness of C14: a run over at least three items has printed its result,
\* with clustered and unclustered items in it.
C14_Witness ==
    /\ pc = "done"
    /\ Items >= 3
    /\ output # None
    /\ \E i, j \in Idx(Items) : output[1][i] = -1 /\ output[1][j] # -1

\* The cluster ids in the result arrays.
IdsPresent == {clusters[i] : i \in Idx(Items)} \ {-1}

\* C15: cluster ids follow the first-discovery order of the pre-order,
\* left-child-first walk: with k nodes cut, the ids in the output are exactly
\* 0 .. k-1, the k cut nodes carry k different ids, and a cut node has a
\* smaller id than another exactly when it comes earlier in pre-order.
C15_IdsInDiscoveryOrder ==
    Traversed =>
        /\ IdsPresent = 0 .. (Cardinality(cuts) - 1)
        /\ {c.cluster : c \in cuts} = IdsPresent
        /\ cluster_index = Cardinality(cuts)
        /\ \A c, d \in cuts :
              (c.cluster < d.cluster)
                  <=> (PreOrderPos(c.node) < PreOrderPos(d.node))

\* Witness of C15: two nodes were cut, the first of them in the left subtree
\* of the root and the second in the right one.
C15_Witness ==
    /\ pc = "done"
    /\ \E c, d \in cuts :
          /\ c.cluster = 0
          /\ d.cluster = 1
          /\ c.node \in InternalUnder(Left(Root))
          /\ d.node \in InternalUnder(Right(Root))

\* Node a satisfies the cut criteria: its merge distance is within its
\* criteria.
SatisfiesCriteria(a) == Dist(a) * CriteriaDen <= Criteria(a)

\* C16: after the traversal a leaf has cluster id -1 exactly when none of
\* its internal ancestors (the root included) has a merge distance within
\* its criteria, and every such leaf still has the initial probability 1.0.
C16_UnclusteredLeaves ==
    Traversed =>
        \A l \in Idx(Items) :
            /\ (clusters[l] = -1)
                   <=> (\A a \in InternalAbove(l) : ~SatisfiesCriteria(a))
            /\ clusters[l] = -1 => probs[l] = One

\* Witness of C16: a run over at least three items has ended with an
\* unclustered leaf next to a clustered one, and with a node whose merge
\* distance is exactly its criteria.
C16_Witness ==
    /\ pc = "done"
    /\ Items >= 3
    /\ \E l, m \in Idx(Items) :
          /\ clusters[l] = -1
          /\ clusters[m] # -1
    /\ \E a \in InternalNodes : Dist(a) * CriteriaDen = Criteria(a)

\* The topmost internal ancestors of node n that satisfy the cut criteria
\* (at most one).
TopmostSatisfying(n) ==
    {a \in InternalAbove(n) :
        /\ SatisfiesCriteria(a)
        /\ \A b \in InternalAbove(a) : ~SatisfiesCriteria(b)}

\* C17: from the moment a leaf is written, and until the end of the run, a
\* leaf below a node that satisfies the cut criteria is clustered and has
\* probability max(1 - d, 0), d being the merge distance of its topmost
\* ancestor satisfying the criteria (the node where its cluster was
\* created), whatever the deeper merges inside the cluster are.
C17_ProbabilityFixedAtCreation ==
    Annotated =>
        \A l \in Idx(Items) \intersect DOMAIN colors :
            LET top == TopmostSatisfying(l)
            IN  /\ clusters[l] # -1 => top # {}
                /\ \A a \in top :
                      /\ clusters[l] # -1
                      /\ \E c \in cuts : c.node = a /\ c.cluster = clusters[l]
                      /\ probs[l] = Max2(One - Dist(a), 0)

\* Witness of C17: a clustered leaf lies below a deeper merge of its cluster
\* that satisfies the criteria as well and has another merge distance than
\* the node where the cluster was created.
C17_Witness ==
    /\ pc = "done"
    /\ \E l \in Idx(Items) :
          \E a \in TopmostSatisfying(l) :
              \E b \in InternalAbove(l) \intersect InternalUnder(a) :
                  /\ b # a
                  /\ SatisfiesCriteria(b)
                  /\ Dist(b) # Dist(a)
                  /\ probs[l] # Max2(One - Dist(b), 0)

\* The nodes of the calls of traverse that are still to be made.
Pending == {stack[k].node : k \in 1 .. Len(stack)}

\* C18: the traversal visits every node of the merge tree exactly once, and
\* the root call returns N. A node is marked (an entry of colors) when it is
\* visited: no call is ever pending for a marked node or twice for the same
\* node, the leaf visits counted so far are the marked leaves, and at the end
\* every node is marked and the count is N.
C18_EveryNodeOnce ==
    /\ pc = "traverse" =>
          /\ Pending \intersect DOMAIN colors = {}
          /\ Cardinality(Pending) = Len(stack)
          /\ nodes = Cardinality(DOMAIN colors \intersect Idx(Items))
    /\ Traversed =>
          /\ DOMAIN colors = 0 .. Root
          /\ nodes = Items

\* Witness of C18: the traversal has returned on a tree over at least four
\* leaves whose root has two internal children.
C18_Witness ==
    /\ pc = "done"
    /\ Items >= 4
    /\ ~IsLeaf(Left(Root))
    /\ ~IsLeaf(Right(Root))
    /\ nodes = Items

\* C13: the boundary inputs N = 0 and N = 1 are valid cases: the run does
\* not stop with an error, and it ends by printing clusterIds = [-1] and
\* probabilities = [1.0] for N = 1, two empty arrays for N = 0.
C13_BoundaryInputsValid ==
    Items <= 1 =>
        /\ pc \notin {"ValueError", "ZeroDivisionError"}
        /\ pc = "done" =>
              output = <<[i \in Idx(Items) |-> -1], [i \in Idx(Items) |-> One]>>

\* ================================================== interactive calibration
\* src/utils/embeddings/clustering_linkage-jc.py: the script with the
\* calibration window between the distances and the penalty loop. The
\* embeddings are taken as they are after normalize (line 54).

\* Largest number of GUI events handled while the window is open.
MaxEvents == 3

\* Largest number of items of an interactive run.
MaxShownItems == 3

\* Rows shown in a table (lines 121, 125, 126).
TableRows == 10

\* The number 0.01.
Hundredth == One \div 100

\* event.xdata of the clicks inside the histogram, in thousandths; none of
\* them is half-way between two hundredths.
ClickChoices == {52, 498, 1301}

\* event.key of the key presses.
KeyChoices == {"enter", "a"}

\* round(x, 2) for x in thousandths: the nearest hundredth, in fine units.
Round2(x) == ((x + 5) \div 10) * Hundredth

\* f"{dist:.3f}": the distance in thousandths, rounded to the nearest.
Format3(d) == (d * 1000 + (One \div 2)) \div One

\* The n smallest coordinates, in increasing order.
FirstPositions(n) ==
    [i \in Idx(n) |->
        CHOOSE p \in Positions : Cardinality({q \in Positions : q < p}) = i]

\* The GUI events.
ClickEvent(inaxes, x) ==
    [type |-> "click", inaxes |-> inaxes, xdata |-> x, key |-> ""]

KeyEvent(k) == [type |-> "key", inaxes |-> FALSE, xdata |-> 0, key |-> k]

CloseEvent == [type |-> "close", inaxes |-> FALSE, xdata |-> 0, key |-> ""]

\* Nothing was computed yet: the values the variables have before the
\* statements that assign them.
NothingComputed ==
    /\ distances = None
    /\ condensed_distances = None
    /\ avg_size = <<0, 0>>
    /\ linkages = <<>>
    /\ members = None
    /\ tree_examples = None
    /\ cluster_index = 0
    /\ clusters = None
    /\ probs = None
    /\ colors = None
    /\ stack = <<>>
    /\ nodes = 0
    /\ cuts = {}
    /\ runs = <<>>
    /\ output = None
    /\ update_max = TRUE
    /\ max_table_data = None
    /\ min_table_data = None
    /\ events = <<>>
    /\ std_size = <<0, 0>>
    /\ leaf_sizes = None

\* Lines 19-25 and the inputs: an interactive or non-interactive run.
InitInteractive ==
    /\ pc = "distances"
    /\ Items \in 0 .. MaxShownItems
    /\ embeddings = FirstPositions(Items)
    /\ examples \in ExampleChoices(Items)
    /\ \E t \in ThresholdChoices :
          /\ MaxDistance = Fine(t[1])
          /\ MinDistance = Fine(t[2])
    /\ Linkage \in LinkageChoices
    /\ interactive \in BOOLEAN
    /\ sizes = None
    /\ NothingComputed

\* Lines 104-111: the pairs i < j in decreasing order of distance; the sort
\* is stable, so equal distances stay in the order of the two loops.
PairBefore(m, p, q) ==
    \/ m[p[1]][p[2]] > m[q[1]][q[2]]
    \/ /\ m[p[1]][p[2]] = m[q[1]][q[2]]
       /\ p[1] * Items + p[2] < q[1] * Items + q[2]

RECURSIVE SortedPairs(_, _)
SortedPairs(m, S) ==
    IF S = {} THEN <<>>
    ELSE LET p == CHOOSE r \in S : \A q \in S \ {r} : PairBefore(m, r, q)
         IN  <<p>> \o SortedPairs(m, S \ {p})

\* Mutant of TableData: the rows are not cut to the first ten.
TableDataUncut(m, threshold) ==
    LET pairs == SortedPairs(m, {p \in Idx(Items) \X Idx(Items) : p[1] < p[2]})
        Under(p) == threshold > m[p[1]][p[2]]
        under == SelectSeq(pairs, Under)
        rows == [k \in 1 .. Len(under) |->
                    <<under[k][1], under[k][2], Format3(m[under[k][1]][under[k][2]])>>]
    IN  IF Len(rows) = 0 THEN << <<"No pairs found", "", "">> >> ELSE rows

\* Lines 113-132: the rows of the table of one threshold: the pairs with a
\* distance below it, in the sorted order, cut to the first ten; one
\* placeholder row when there is none.
TableData(m, threshold) ==
    LET pairs == SortedPairs(m, {p \in Idx(Items) \X Idx(Items) : p[1] < p[2]})
        Under(p) == threshold > m[p[1]][p[2]]
        under == SelectSeq(pairs, Under)
        rows == [k \in 1 .. Min2(TableRows, Len(under)) |->
                    <<under[k][1], under[k][2], Format3(m[under[k][1]][under[k][2]])>>]
    IN  IF Len(rows) = 0 THEN << <<"No pairs found", "", "">> >> ELSE rows

\* Mutant of ClickedMax: the max marker is put where the click was.
ClickedMaxUnclamped(x) == Round2(x)

\* Lines 204-206: the max marker after a click at x.
ClickedMax(x) == Max2(Round2(x), MinDistance)

\* Lines 211-213: the min marker after a click at x.
ClickedMin(x) == Min2(Round2(x), MaxDistance)

\* Mutant of ClosesFigure: any key closes the figure.
ClosesFigureOnAnyKey(k) == TRUE

\* Line 193: the key that makes onkey close the figure.
ClosesFigure(k) == k = "enter"

\* Lines 54-58 and, in an interactive run, lines 60-98 and 222-232 up to the
\* call of plt.show(): the window is set up, update_max is True and the
\* tables are filled for the first time. normalize rejects an array of no
\* items (ValueError).
ComputeDistancesSrc ==
    /\ pc = "distances"
    /\ IF Items = 0
       THEN /\ pc' = "ValueError"
            /\ UNCHANGED <<distances, condensed_distances, update_max,
                           max_table_data, min_table_data>>
       ELSE /\ distances' = PairwiseDistances(embeddings, Items)
            /\ condensed_distances' = Squareform(distances', Items)
            /\ IF interactive
               THEN /\ update_max' = TRUE
                    /\ max_table_data' = TableData(distances', MaxDistance)
                    /\ min_table_data' = TableData(distances', MinDistance)
                    /\ pc' = "calibrating"
               ELSE /\ UNCHANGED <<update_max, max_table_data, min_table_data>>
                    /\ pc' = "statistics"
    /\ UNCHANGED <<inputs, interactive, events, sizestate, avg_size, linkages,
                   members, tree_examples, cluster_index, clusters, probs,
                   colors, stack, nodes, cuts, runs, output>>

\* Mutant of Flipped: update_max is left as it is.
FlippedNever(u) == u

\* Line 219: update_max = not update_max.
Flipped(u) == ~u

\* Lines 199-220, onclick: a click outside the histogram returns at once; a
\* click inside moves one marker, flips update_max and redraws the tables.
OnClick ==
    /\ pc = "calibrating"
    /\ Len(events) < MaxEvents
    /\ \/ /\ events' = Append(events, ClickEvent(FALSE, 0))
          /\ UNCHANGED <<MaxDistance, MinDistance, update_max,
                         max_table_data, min_table_data>>
       \/ \E x \in ClickChoices :
             /\ events' = Append(events, ClickEvent(TRUE, x))
             /\ MaxDistance' = IF update_max THEN ClickedMax(x) ELSE MaxDistance
             /\ MinDistance' = IF update_max THEN MinDistance ELSE ClickedMin(x)
             /\ update_max' = Flipped(update_max)
             /\ max_table_data' = TableData(distances, MaxDistance')
             /\ min_table_data' = TableData(distances, MinDistance')
    /\ UNCHANGED <<pc, Items, embeddings, examples, Linkage, interactive,
                   sizestate, distances, condensed_distances, avg_size,
                   linkages, members, tree_examples, cluster_index, clusters,
                   probs, colors, stack, nodes, cuts, runs, output>>

\* Lines 192-194, onkey: Enter closes the figure, which lets plt.show()
\* (line 232) return; any other key is ignored.
OnKey ==
    /\ pc = "calibrating"
    /\ Len(events) < MaxEvents
    /\ \E k \in KeyChoices :
          /\ events' = Append(events, KeyEvent(k))
          /\ pc' = IF ClosesFigure(k) THEN "statistics" ELSE "calibrating"
    /\ UNCHANGED <<inputs, interactive, update_max, max_table_data,
                   min_table_data, sizestate, distances, condensed_distances,
                   avg_size, linkages, members, tree_examples, cluster_index,
                   clusters, probs, colors, stack, nodes, cuts, runs, output>>

\* Line 232: plt.show() returns as well when the operator closes the window
\* with the window's own control.
CloseWindow ==
    /\ pc = "calibrating"
    /\ Len(events) < MaxEvents
    /\ events' = Append(events, CloseEvent)
    /\ pc' = "statistics"
    /\ UNCHANGED <<inputs, interactive, update_max, max_table_data,
                   min_table_data, sizestate, distances, condensed_distances,
                   avg_size, linkages, members, tree_examples, cluster_index,
                   clusters, probs, colors, stack, nodes, cuts, runs, output>>

\* Lines 234-250: g_penalty and the size statistics.
Hyperparameters ==
    /\ pc = "statistics"
    /\ avg_size' = AvgSize(examples, Items)
    /\ pc' = "penalty"
    /\ UNCHANGED <<inputs, gui, sizestate, distances, condensed_distances,
                   linkages, members, tree_examples, cluster_index, clusters,
                   probs, colors, stack, nodes, cuts, runs, output>>

\* Mutant of EmitSrc: the two thresholds are echoed in the wrong order.
EmitSrcSwapped ==
    /\ pc = "emit"
    /\ output' = <<clusters, probs, MinDistance, MaxDistance>>
    /\ pc' = "done"
    /\ UNCHANGED <<inputs, gui, sizestate, distances, condensed_distances,
                   avg_size, linkages, members, tree_examples, cluster_index,
                   clusters, probs, colors, stack, nodes, cuts, runs>>

\* Line 344: print(json.dumps([clusters.tolist(), probs.tolist(), max_dist,
\* min_dist])).
EmitSrc ==
    /\ pc = "emit"
    /\ output' = <<clusters, probs, MaxDistance, MinDistance>>
    /\ pc' = "done"
    /\ UNCHANGED <<inputs, gui, sizestate, distances, condensed_distances,
                   avg_size, linkages, members, tree_examples, cluster_index,
                   clusters, probs, colors, stack, nodes, cuts, runs>>

NextInteractive ==
    \/ ComputeDistancesSrc
    \/ OnClick
    \/ OnKey
    \/ CloseWindow
    \/ Hyperparameters
    \/ PenaltyLoop
    \/ LinkageCall
    \/ LinkageMerge
    \/ PreTraverse
    \/ TraverseCall
    \/ EmitSrc

\* The script of src/utils/embeddings/clustering_linkage-jc.py.
SpecInteractive == InitInteractive /\ [][NextInteractive]_vars

\* =========================================== claims about the calibration

\* The clicks inside the histogram handled so far (positions in events).
InsideClicks ==
    {k \in 1 .. Len(events) : events[k].type = "click" /\ events[k].inaxes}

\* The last event handled was a click inside the histogram.
JustClicked == events # <<>> /\ Len(events) \in InsideClicks

\* C19: after every pointer update of a marker, whatever the clicks were,
\* minDistance <= maxDistance; right after an update of the max marker it is
\* the rounded click position clamped up to minDistance, right after an
\* update of the min marker the rounded click position clamped down to
\* maxDistance.
C19_MarkersOrdered ==
    /\ InsideClicks # {} => MinDistance <= MaxDistance
    /\ (JustClicked /\ ~update_max) =>
          MaxDistance = Max2(Round2(events[Len(events)].xdata), MinDistance)
    /\ (JustClicked /\ update_max) =>
          MinDistance = Min2(Round2(events[Len(events)].xdata), MaxDistance)

\* Witness of C19: the window is open after two clicks: the first one, left
\* of the min marker, left the max marker on the min marker, and the second
\* one, right of the max marker, left the min marker on the max marker.
C19_Witness ==
    /\ pc = "calibrating"
    /\ Len(events) = 2
    /\ InsideClicks = {1, 2}
    /\ Round2(events[1].xdata) < MaxDistance
    /\ Round2(events[2].xdata) > MinDistance
    /\ MaxDistance = MinDistance

\* Event e is the operator's confirmation: the Enter key, or the closing of
\* the window.
IsConfirmation(e) ==
    \/ e.type = "key" /\ e.key = "enter"
    \/ e.type = "close"

\* The script is past plt.show(): g_penalty, the penalty loop, the linkage
\* or the traversal has started (a ValueError before any distance was
\* computed is not past it).
PastCalibration ==
    \/ pc \in {"statistics", "penalty", "linkage", "merging", "pre_traverse",
               "traverse", "emit", "done", "ZeroDivisionError"}
    \/ pc = "ValueError" /\ distances # None

\* C20: in interactive mode the calibration blocks the pipeline. While the
\* window is open no confirmation was given, the matrix is not adjusted, no
\* tree is built and nothing is selected; the script is past the window only
\* when the last event handled is the operator's confirmation, so that
\* clicks and other keys alone, or the passing of time, never let it proceed.
C20_CalibrationBlocks ==
    interactive =>
        /\ pc = "calibrating" =>
              /\ \A k \in 1 .. Len(events) : ~IsConfirmation(events[k])
              /\ distances = RawDistances
              /\ linkages = <<>>
              /\ tree_examples = None
              /\ clusters = None
              /\ output = None
        /\ pc = "distances" => events = <<>>
        /\ PastCalibration =>
              /\ events # <<>>
              /\ IsConfirmation(events[Len(events)])
              /\ \A k \in 1 .. (Len(events) - 1) : ~IsConfirmation(events[k])

\* Witness of C20: an interactive run has printed its result after two
\* clicks inside the histogram and the Enter key.
C20_Witness ==
    /\ interactive
    /\ pc = "done"
    /\ Len(events) = 3
    /\ InsideClicks = {1, 2}
    /\ events[3] = KeyEvent("enter")
    /\ \E i \in Idx(Items) : clusters[i] # -1

\* ============================================================ size variant
\* analysis/embeddings/clustering-linkage-jc.py: every item has a size, the
\* penalty of a pair or of a node grows with the summed size measured in
\* standard deviations above the average size.
\*
\* avg_size is <<s, k>> for s/k and std_size is <<v, k>> for sqrt(v)/k, with
\* v = k * (sum of squares) - s * s; k = 0 stands for nan (np.mean and np.std
\* of an empty list). All distances, merge distances, thresholds and
\* probabilities of this variant are kept in units of 1/SizeScale of a fine
\* unit, which makes the squared ratios x^2 / (9 v / k^2) and x^2 / (4 v / k^2)
\* integral.

\* Sizes of n items, one assignment per family.
SizeChoices(n) ==
    { [i \in Idx(n) |-> 3],                          \* all equal
      [i \in Idx(n) |-> 1],                          \* no item of size > 1
      [i \in Idx(n) |-> IF i = 0 THEN 2 ELSE 1],     \* one item of size > 1
      [i \in Idx(n) |-> IF i = 0 THEN 3 ELSE 0],     \* one item of size > 1, others empty
      [i \in Idx(n) |-> i + 1],                      \* growing
      [i \in Idx(n) |-> 2 + 2 * (i % 2)] }           \* alternating 2 and 4

RECURSIVE SumOver(_, _)
\* The sum of f over the set S.
SumOver(f, S) ==
    IF S = {} THEN 0
    ELSE LET i == CHOOSE k \in S : TRUE IN f[i] + SumOver(f, S \ {i})

\* Line 41: the items whose size counts.
SizesForCalc == {i \in Idx(Items) : sizes[i] > 1}

\* Line 42: np.mean(sizes_for_calc) as <<sum, count>>.
MeanSize == <<SumOver(sizes, SizesForCalc), Cardinality(SizesForCalc)>>

\* Line 43: np.std(sizes_for_calc) as <<v, count>>.
StdSize ==
    <<Cardinality(SizesForCalc)
          * SumOver([i \in Idx(Items) |-> sizes[i] * sizes[i]], SizesForCalc)
        - MeanSize[1] * MeanSize[1],
      Cardinality(SizesForCalc)>>

\* Units per fine unit in a run with the standard deviation st.
ScaleOf(st) ==
    IF st[2] = 0 \/ st[1] = 0 THEN 1 ELSE (2 * 3) * (2 * 3) * st[1]

\* Units per fine unit in this run, once the statistics are computed.
SizeScale == ScaleOf(std_size)

\* min(1, max(0, (x - avg_size) / w / std_size)) squared, in units of
\* 1/SizeScale. With numpy floats a division by std_size = 0 does not raise:
\* it gives inf, -inf or nan, and max(0, nan) is 0, min(1, inf) is 1; with
\* no item of size > 1 both statistics are nan and the result is 0.
SquaredClampedRatio(x, w) ==
    LET k == avg_size[2]
        c == x * k - avg_size[1]
        v == std_size[1]
    IN  IF k = 0 THEN 0
        ELSE IF v = 0 THEN (IF c > 0 THEN SizeScale ELSE 0)
        ELSE IF c <= 0 THEN 0
        ELSE IF c * c >= w * w * v THEN SizeScale
        ELSE (c * c * SizeScale) \div (w * w * v)

\* Lines 19-20 and the inputs of a run of the size variant.
InitSize ==
    /\ pc = "distances"
    /\ Items \in 0 .. MaxItems
    /\ embeddings \in EmbeddingChoices(Items)
    /\ sizes \in SizeChoices(Items)
    /\ examples = None
    /\ \E t \in ThresholdChoices :
          /\ MaxDistance = Fine(t[1])
          /\ MinDistance = Fine(t[2])
    /\ Linkage \in LinkageChoices
    /\ interactive = FALSE
    /\ NothingComputed

\* Lines 33-44: distances, their condensed copy, and the size statistics.
\* pairwise_distances rejects an array of no items (ValueError).
ComputeDistancesSize ==
    /\ pc = "distances"
    /\ IF Items = 0
       THEN /\ pc' = "ValueError"
            /\ UNCHANGED <<distances, condensed_distances, avg_size, std_size>>
       ELSE /\ LET raw == PairwiseDistances(embeddings, Items)
                     scale == ScaleOf(StdSize)
                IN  distances' =
                        [i \in Idx(Items) |-> [j \in Idx(Items) |->
                            raw[i][j] * scale]]
            /\ condensed_distances' = Squareform(distances', Items)
            /\ avg_size' = MeanSize
            /\ std_size' = StdSize
            /\ pc' = "penalty"
    /\ UNCHANGED <<inputs, gui, sizes, leaf_sizes, linkages, members,
                   tree_examples, cluster_index, clusters, probs, colors,
                   stack, nodes, cuts, runs, output>>

\* Mutant of PairPenalty: the ratio is divided by 2, as in the Selector,
\* instead of 3.
PairPenaltyAsNode(i, j) == SquaredClampedRatio(sizes[i] + sizes[j], 2)

\* Line 51-52: the squared penalty ratio of the pair (i, j).
PairPenalty(i, j) == SquaredClampedRatio(sizes[i] + sizes[j], 3)

\* Lines 49-53: the penalty loop over every entry of the square matrix.
PenaltyLoopSize ==
    /\ pc = "penalty"
    /\ distances' =
          [i \in Idx(Items) |-> [j \in Idx(Items) |->
              distances[i][j] + PairPenalty(i, j) * Penalty]]
    /\ pc' = "linkage"
    /\ UNCHANGED <<inputs, gui, sizestate, condensed_distances, avg_size,
                   linkages, members, tree_examples, cluster_index, clusters,
                   probs, colors, stack, nodes, cuts, runs, output>>

RECURSIVE LeafSizes(_)
\* Lines 60-65, pre_traverse: the summed size of the leaves under node n.
LeafSizes(n) ==
    IF IsLeaf(n) THEN sizes[n] ELSE LeafSizes(Left(n)) + LeafSizes(Right(n))

\* Lines 59-72: the tree is annotated with the summed sizes and the
\* traversal state is initialised.
PreTraverseSize ==
    /\ pc = "pre_traverse"
    /\ leaf_sizes' = [n \in InternalNodes |-> LeafSizes(n)]
    /\ cluster_index' = ClusterIndexAtStart
    /\ clusters' = [i \in Idx(Items) |-> -1]
    /\ probs' = [i \in Idx(Items) |-> One * SizeScale]
    /\ colors' = None
    /\ stack' = <<Call(Root, -1, One * SizeScale, "#cccccc")>>
    /\ nodes' = 0
    /\ pc' = "traverse"
    /\ UNCHANGED <<inputs, gui, sizes, std_size, distances,
                   condensed_distances, avg_size, linkages, members,
                   tree_examples, cuts, runs, output>>

\* Lines 85-86: the squared penalty ratio of node n.
NodePenalty(n) == SquaredClampedRatio(leaf_sizes[n], 2)

\* Line 87: criteria = max(MaxDistance - penalty * Penalty, MinDistance).
CriteriaSize(n) ==
    Max2(MaxDistance * SizeScale - NodePenalty(n) * Penalty,
         MinDistance * SizeScale)

\* Line 94: cluster == -1 and node.dist <= criteria.
IsCutSize(cluster, n) == cluster = -1 /\ Dist(n) <= CriteriaSize(n)

\* Line 98: prob = max(1 - node.dist, 0).
CutProbSize(n) == Max2(One * SizeScale - Dist(n), 0)

\* Lines 75-101: one call of traverse, up to its recursive calls.
TraverseCallSize ==
    /\ pc = "traverse"
    /\ stack # <<>>
    /\ LET f == Head(stack)
           n == f.node
       IN  IF IsLeaf(n)
           THEN /\ clusters' = [clusters EXCEPT ![n] = f.cluster]
                /\ probs' = [probs EXCEPT ![n] = f.prob]
                /\ colors' = [k \in DOMAIN colors \union {n} |->
                                 IF k = n THEN f.color ELSE colors[k]]
                /\ nodes' = nodes + 1
                /\ stack' = Tail(stack)
                /\ UNCHANGED <<cluster_index, cuts>>
           ELSE LET cut == IsCutSize(f.cluster, n)
                    c == IF cut THEN cluster_index ELSE f.cluster
                    p == IF cut THEN CutProbSize(n) ELSE f.prob
                    col == IF cut THEN "#000000" ELSE f.color
                IN  /\ cluster_index' = IF cut THEN cluster_index + 1 ELSE cluster_index
                    /\ cuts' = IF cut
                               THEN cuts \union {[node |-> n, cluster |-> c, prob |-> p]}
                               ELSE cuts
                    /\ colors' = [k \in DOMAIN colors \union {n} |->
                                     IF k = n THEN col ELSE colors[k]]
                    /\ stack' = ChildCalls(n, c, p, col) \o Tail(stack)
                    /\ UNCHANGED <<clusters, probs, nodes>>
    /\ pc' = IF stack' = <<>> THEN "emit" ELSE "traverse"
    /\ runs' = IF stack' = <<>> THEN Append(runs, <<clusters', probs'>>) ELSE runs
    /\ UNCHANGED <<inputs, gui, sizestate, distances, condensed_distances,
                   avg_size, linkages, members, tree_examples, output>>

NextSize ==
    \/ ComputeDistancesSize
    \/ PenaltyLoopSize
    \/ LinkageCall
    \/ LinkageMerge
    \/ PreTraverseSize
    \/ TraverseCallSize
    \/ Emit

\* The script of analysis/embeddings/clustering-linkage-jc.py.
SpecSize == InitSize /\ [][NextSize]_vars

\* ------------------------------------------- claims about the size variant

\* The statistics were computed and the standard deviation is zero or nan:
\* fewer than two items of size > 1, or all such sizes equal.
ZeroDeviation ==
    /\ pc # "distances"
    /\ distances # None
    /\ std_size[2] = 0 \/ std_size[1] = 0

\* C11: with a standard deviation of zero the penalty term is 0 for every
\* pair in the Adjuster (no entry of the matrix is changed) and for every
\* node in the Selector (the criteria is maxDistance), and the run does not
\* fail. Stated for runs of at least two items with minDistance <=
\* maxDistance.
C11_ZeroDeviationNoPenalty ==
    (ZeroDeviation /\ Items >= 2 /\ MinDistance <= MaxDistance) =>
        /\ pc \notin {"ZeroDivisionError", "ValueError"}
        /\ pc # "penalty" =>
              \A i, j \in Idx(Items) :
                  distances[i][j] = RawDistances[i][j] * SizeScale
        /\ Annotated =>
              \A n \in InternalNodes : CriteriaSize(n) = MaxDistance * SizeScale

\* ================================================= the calibration tables
\* The calibration window alone, on runs with enough items for a table to be
\* cut to its ten rows.

\* Largest number of items of a run of the calibration window alone.
MaxTableItems == 6

\* Lines 19-25 and the inputs of an interactive run over items at the
\* coordinates 0, 1, 4, 9, ... (steps of 0.05), some of whose pairs are
\* equally far apart.
InitTables ==
    /\ pc = "distances"
    /\ Items \in 2 .. MaxTableItems
    /\ embeddings = [i \in Idx(Items) |-> i * i]
    /\ examples = [i \in Idx(Items) |-> {1, 2}]
    /\ \E t \in ThresholdChoices :
          /\ MaxDistance = Fine(t[1])
          /\ MinDistance = Fine(t[2])
    /\ Linkage = "single"
    /\ interactive = TRUE
    /\ sizes = None
    /\ NothingComputed

NextTables ==
    \/ ComputeDistancesSrc
    \/ OnClick
    \/ OnKey
    \/ CloseWindow

\* The script of src/utils/embeddings/clustering_linkage-jc.py up to the
\* return of plt.show().
SpecTables == InitTables /\ [][NextTables]_vars

\* The pairs i < j with a distance below the threshold.
PairsUnder(threshold) ==
    {p \in Idx(Items) \X Idx(Items) :
        p[1] < p[2] /\ distances[p[1]][p[2]] < threshold}

\* The pairs in the rows of a table that is not the placeholder.
RowPairs(table) == {<<table[k][1], table[k][2]>> : k \in 1 .. Len(table)}

\* The table is the placeholder row.
IsPlaceholder(table) == table = << <<"No pairs found", "", "">> >>

\* The table lists pairs under the threshold, each once and with its
\* distance, at most ten of them and all of them if there are at most ten.
ListsPairsUnder(table, threshold) ==
    /\ Len(table) = Min2(TableRows, Cardinality(PairsUnder(threshold)))
    /\ RowPairs(table) \subseteq PairsUnder(threshold)
    /\ Cardinality(RowPairs(table)) = Len(table)
    /\ \A k \in 1 .. Len(table) :
          table[k][3] = Format3(distances[table[k][1]][table[k][2]])

\* The table holds the smallest distances under the threshold, in
\* increasing order.
SmallestFirst(table, threshold) ==
    /\ \A k \in 1 .. (Len(table) - 1) :
          distances[table[k][1]][table[k][2]]
              <= distances[table[k + 1][1]][table[k + 1][2]]
    /\ \A p \in PairsUnder(threshold) \ RowPairs(table) :
          \A k \in 1 .. Len(table) :
              distances[p[1]][p[2]] >= distances[table[k][1]][table[k][2]]

\* The table holds the largest distances under the threshold, in decreasing
\* order.
LargestFirst(table, threshold) ==
    /\ \A k \in 1 .. (Len(table) - 1) :
          distances[table[k][1]][table[k][2]]
              >= distances[table[k + 1][1]][table[k + 1][2]]
    /\ \A p \in PairsUnder(threshold) \ RowPairs(table) :
          \A k \in 1 .. Len(table) :
              distances[p[1]][p[2]] <= distances[table[k][1]][table[k][2]]

\* C21 as stated: while the window is open, and after every update, each
\* table lists at most 10 pairs with a distance strictly below its
\* threshold, the 10 smallest-distance ones in increasing order of distance.
C21_AsStated ==
    pc = "calibrating" =>
        /\ PairsUnder(MaxDistance) # {} =>
              /\ ListsPairsUnder(max_table_data, MaxDistance)
              /\ SmallestFirst(max_table_data, MaxDistance)
        /\ PairsUnder(MinDistance) # {} =>
              /\ ListsPairsUnder(min_table_data, MinDistance)
              /\ SmallestFirst(min_table_data, MinDistance)

\* C21 (amended): while the window is open, and after every update, each
\* table lists at most 10 pairs with a distance strictly below its
\* threshold: the 10 largest-distance ones (the pairs nearest to the
\* threshold) in decreasing order of distance, or one placeholder row when
\* no pair is below the threshold.
C21_TablesNearThreshold ==
    pc = "calibrating" =>
        /\ IF PairsUnder(MaxDistance) = {}
           THEN IsPlaceholder(max_table_data)
           ELSE /\ ListsPairsUnder(max_table_data, MaxDistance)
                /\ LargestFirst(max_table_data, MaxDistance)
        /\ IF PairsUnder(MinDistance) = {}
           THEN IsPlaceholder(min_table_data)
           ELSE /\ ListsPairsUnder(min_table_data, MinDistance)
                /\ LargestFirst(min_table_data, MinDistance)

\* Witness of C21: after a click more than ten pairs are under the max
\* threshold and its table has ten rows, while the table of the min
\* threshold lists fewer pairs of different distances.
C21_Witness ==
    /\ pc = "calibrating"
    /\ InsideClicks # {}
    /\ Cardinality(PairsUnder(MaxDistance)) > TableRows
    /\ Len(max_table_data) = TableRows
    /\ Cardinality(PairsUnder(MinDistance)) \in 2 .. (TableRows - 1)
    /\ min_table_data[1][3] # min_table_data[2][3]

\* One step of the script keeps the thresholds where the markers are: only
\* a step that leaves the window open (a click) may move them, so the
\* confirmation and every later step leave them as they were at the
\* confirmation, and a run without the interactive step never changes them;
\* the penalty loop adds its penalties with them, a node is cut only within
\* the criteria computed from them, and the result echoes them.
ThresholdsFrozen ==
    /\ (~interactive \/ pc # "calibrating" \/ pc' # "calibrating") =>
          /\ MaxDistance' = MaxDistance
          /\ MinDistance' = MinDistance
    /\ (pc = "penalty" /\ pc' = "linkage") =>
          \A i, j \in Idx(Items) :
              IF distances[i][j] > MinDistance
              THEN (distances'[i][j] - distances[i][j])
                       * CountMergedDen(i, j) * CountMergedDen(i, j)
                     = CountMergedNum(i, j) * CountMergedNum(i, j)
                           * (MaxDistance - MinDistance)
              ELSE distances'[i][j] = distances[i][j]
    /\ \A c \in cuts' \ cuts :
          /\ SatisfiesCriteria(c.node)
          /\ c.prob = Max2(One - Dist(c.node), 0)
    /\ (output' # None) =>
          /\ output'[3] = MaxDistance
          /\ output'[4] = MinDistance

\* C22: the thresholds used by the Adjuster and the Selector and echoed in
\* the output are the marker values at the moment of confirmation; without
\* the interactive step they are the supplied values, unchanged.
C22_ThresholdsAsConfirmed == [][ThresholdsFrozen]_vars

\* Witness of C22: an interactive run has printed its result after two
\* clicks that moved both markers to where the clicks were and the Enter
\* key; the result echoes the two markers and holds a cluster.
C22_Witness ==
    /\ interactive
    /\ pc = "done"
    /\ Len(events) = 3
    /\ InsideClicks = {1, 2}
    /\ events[3] = KeyEvent("enter")
    /\ MaxDistance = Round2(events[1].xdata)
    /\ MinDistance = Round2(events[2].xdata)
    /\ MinDistance < MaxDistance
    /\ output[3] = MaxDistance
    /\ output[4] = MinDistance
    /\ \E i \in Idx(Items) : output[1][i] # -1

\* ----------------------------------------------------- the cut threshold

\* clamp01((annotationSize - averageSize) / (3 * averageSize - averageSize))
\* of node n as <<numerator, denominator>>; with no item of more than one
\* example the average is undefined and the ratio counts as 0.
ClampedSizeRatio(n) ==
    LET s == avg_size[1]
        k == avg_size[2]
        c == Cardinality(tree_examples[n]) * k - s
    IN  IF k = 0 \/ c <= 0 THEN <<0, 1>>
        ELSE IF c >= 2 * s THEN <<1, 1>>
        ELSE <<c, 2 * s>>

\* C23: at every internal node criteria = max(maxDistance - p * (maxDistance
\* - minDistance), minDistance) with p the squared clamped size ratio, and a
\* node reached outside any cluster is cut iff its merge distance <=
\* criteria; hence criteria = maxDistance at a node whose annotation size is
\* at most the average size, and criteria = minDistance at a node whose
\* annotation size is at least three times the average size.
C23_CutThreshold ==
    Annotated =>
        \A n \in InternalNodes :
            LET r == ClampedSizeRatio(n)
                size == Cardinality(tree_examples[n])
            IN  /\ Criteria(n) * r[2] * r[2] =
                       Max2(MaxDistance * r[2] * r[2]
                                - r[1] * r[1] * (MaxDistance - MinDistance),
                            MinDistance * r[2] * r[2]) * CriteriaDen
                /\ (Traversed /\ \A c \in cuts : c.node \notin InternalAbove(n)) =>
                      ((\E c \in cuts : c.node = n)
                          <=> Dist(n) * CriteriaDen <= Criteria(n))
                /\ (avg_size[2] > 0 /\ size * avg_size[2] <= avg_size[1]) =>
                      Criteria(n) = MaxDistance * CriteriaDen
                /\ (avg_size[2] > 0 /\ size * avg_size[2] >= 3 * avg_size[1]) =>
                      Criteria(n) = MinDistance * CriteriaDen

\* The penalty loop of the size variant has completed.
SizePenaltyDone == Items > 0 /\ pc \notin {"distances", "penalty"}

\* What the penalty loop of the size variant has added to the entry (i, j),
\* in units of 1/SizeScale of a fine unit.
SizeAdded(i, j) == distances[i][j] - RawDistances[i][j] * SizeScale

\* The summed size of the pair (i, j) minus the average size, times the
\* number of items of size > 1.
SizeExcess(i, j) == (sizes[i] + sizes[j]) * avg_size[2] - avg_size[1]

\* C24: the statistics are those of the items with size > 1 only, and with
\* a standard deviation above zero the Adjuster adds, for every pair (i, j),
\* clamp01((size[i] + size[j] - averageSize) / (3 * stdDevSize))^2 *
\* (maxDistance - minDistance) to distance[i][j]. (With x the excess times
\* the count k and v = k^2 * stdDevSize^2 the squared ratio is x^2 / (9 v).)
C24_SizePenalty ==
    SizePenaltyDone =>
        /\ avg_size[2] = Cardinality({i \in Idx(Items) : sizes[i] > 1})
        /\ avg_size[1] = SumOver(sizes, {i \in Idx(Items) : sizes[i] > 1})
        /\ std_size[2] = avg_size[2]
        /\ std_size[1] + avg_size[1] * avg_size[1] =
              avg_size[2] * SumOver([i \in Idx(Items) |-> sizes[i] * sizes[i]],
                                    {i \in Idx(Items) : sizes[i] > 1})
        /\ (std_size[2] > 0 /\ std_size[1] > 0) =>
              \A i, j \in Idx(Items) :
                  IF SizeExcess(i, j) <= 0
                  THEN SizeAdded(i, j) = 0
                  ELSE IF SizeExcess(i, j) * SizeExcess(i, j) >= 9 * std_size[1]
                  THEN SizeAdded(i, j) = SizeScale * (MaxDistance - MinDistance)
                  ELSE SizeAdded(i, j) * 9 * std_size[1] =
                           SizeExcess(i, j) * SizeExcess(i, j) * SizeScale
                               * (MaxDistance - MinDistance)

\* Witness of C24: the loop has completed with a standard deviation above
\* zero on a matrix with an entry that got no penalty, one that got a part
\* of the penalty range and one that got all of it.
C24_Witness ==
    /\ pc = "linkage"
    /\ std_size[2] > 0
    /\ std_size[1] > 0
    /\ MaxDistance > MinDistance
    /\ \E i, j \in Idx(Items) : i # j /\ SizeAdded(i, j) = 0
    /\ \E i, j \in Idx(Items) :
          /\ SizeAdded(i, j) > 0
          /\ SizeAdded(i, j) < SizeScale * (MaxDistance - MinDistance)
    /\ \E i, j \in Idx(Items) :
          SizeAdded(i, j) = SizeScale * (MaxDistance - MinDistance)

\* C25: after the Adjuster has changed the matrix in place it is still
\* symmetric and non-negative and has a zero diagonal. (Stated for runs with
\* MinDistance <= MaxDistance in which the loop completes.)
C25_MatrixShapeKept ==
    (PenaltyDone /\ MinDistance <= MaxDistance) =>
        \A i, j \in Idx(Items) :
            /\ distances[i][j] = distances[j][i]
            /\ distances[i][j] >= 0
            /\ distances[i][i] = 0

\* The leaves whose entries of clusters and probs have been written: a leaf
\* gets its colour in the call that writes its entries.
Written == DOMAIN colors \intersect Idx(Items)

\* One step of the run, as C26 reads it.
FilledOnce ==
    /\ (pc = "pre_traverse" /\ pc' = "traverse") =>
          \A i \in Idx(Items) : clusters'[i] = -1 /\ probs'[i] = One
    /\ pc = "traverse" =>
          LET n == Head(stack).node
          IN  /\ \A i \in Idx(Items) \ Written :
                    clusters[i] = -1 /\ probs[i] = One
              /\ \A i \in Idx(Items) \ {n} :
                    clusters'[i] = clusters[i] /\ probs'[i] = probs[i]
              /\ IsLeaf(n) => n \notin Written
              /\ Written' = IF IsLeaf(n) THEN Written \union {n} ELSE Written
              /\ pc' = "emit" => Written' = Idx(Items)
    /\ pc = "emit" =>
          /\ clusters' = clusters
          /\ probs' = probs
          /\ output'[1] = clusters
          /\ output'[2] = probs

\* C26: every item starts at (-1, 1.0), the traversal writes the entry of
\* each leaf exactly once, in the call made for that leaf, and no entry that
\* has been written changes again before the result is printed.
C26_ArraysFilledOnce == [][FilledOnce]_vars

\* Witness of C26: in the middle of a traversal one leaf has been written
\* into a cluster, one has been written as unclustered and one has not been
\* written yet.
C26_Witness ==
    /\ pc = "traverse"
    /\ Items >= 3
    /\ \E i \in Written : clusters[i] >= 0 /\ probs[i] < One
    /\ \E i \in Written : clusters[i] = -1 /\ probs[i] = One
    /\ Idx(Items) \ Written # {}

\* ===================================================================
\* The overlap variant of next/utils/embeddings/clustering_linkage-jc.py.
\* It is the script of utils/embeddings with renamed globals, except that
\* the global penalty = max_dist - min_dist (line 25) is assigned again by
\* the penalty loop (lines 76-77) and is not read by traverse.
\* ===================================================================

\* The square matrix of this variant is kept in units of 1/NextScale of a
\* fine unit, so that the fourth powers of the ratios over unions of up to
\* four examples are integral; the condensed copy stays in fine units.
NextScale == 6 * 6

RECURSIVE GCD(_, _)
GCD(a, b) == IF b = 0 THEN a ELSE GCD(b, a % b)

\* Lines 51-62 of the next/ script.
ComputeDistancesNext ==
    /\ pc = "distances"
    /\ IF Items = 0
       THEN /\ pc' = "ValueError"
            /\ UNCHANGED <<distances, condensed_distances, avg_size>>
       ELSE /\ LET raw == PairwiseDistances(embeddings, Items)
                IN  /\ distances' =
                          [i \in Idx(Items) |-> [j \in Idx(Items) |->
                              raw[i][j] * NextScale]]
                    /\ condensed_distances' = Squareform(raw, Items)
            /\ avg_size' = AvgSize(examples, Items)
            /\ pc' = "penalty"
    /\ UNCHANGED <<inputs, gui, sizestate, linkages, members, tree_examples,
                   cluster_index, clusters, probs, colors, stack, nodes,
                   cuts, runs, output>>

\* Line 75: distances[i][j] > min_dist.
QualifiesNext(d) == d > MinDistance * NextScale

\* Lines 76-78: penalty = count_merged(i, j); penalty = penalty * penalty;
\* distances[i][j] += penalty * penalty: the fourth power of the ratio.
PenalizedDistanceNext(d, i, j) ==
    LET num == CountMergedNum(i, j)
        den == CountMergedDen(i, j)
    IN  d + ((num * num * num * num * One * NextScale)
                \div (den * den * den * den))

\* The entries at which count_merged divides by zero.
DivisionByZeroAtNext ==
    {p \in Idx(Items) \X Idx(Items) :
        /\ QualifiesNext(distances[p[1]][p[2]])
        /\ CountMergedDen(p[1], p[2]) = 0}

\* The matrix after the loop has handled the entries before position stop.
PenaltyLoopUpToNext(stop) ==
    [i \in Idx(Items) |-> [j \in Idx(Items) |->
        IF LoopOrder(i, j) < stop /\ QualifiesNext(distances[i][j])
        THEN PenalizedDistanceNext(distances[i][j], i, j)
        ELSE distances[i][j]]]

\* Lines 72-78 of the next/ script.
PenaltyLoopNext ==
    /\ pc = "penalty"
    /\ IF DivisionByZeroAtNext = {}
       THEN /\ distances' = PenaltyLoopUpToNext(Items * Items)
            /\ pc' = "linkage"
       ELSE LET p == CHOOSE q \in DivisionByZeroAtNext :
                        \A r \in DivisionByZeroAtNext :
                            LoopOrder(q[1], q[2]) <= LoopOrder(r[1], r[2])
            IN  /\ distances' = PenaltyLoopUpToNext(LoopOrder(p[1], p[2]))
                /\ pc' = "ZeroDivisionError"
    /\ UNCHANGED <<inputs, gui, sizestate, condensed_distances, avg_size,
                   linkages, members, tree_examples, cluster_index, clusters,
                   probs, colors, stack, nodes, cuts, runs, output>>

\* Line 117: the clamped ratio in lowest terms, <<numerator, denominator>>.
TPenaltyRatio(n) ==
    LET g == GCD(PenaltyRatioNum(n), PenaltyRatioDen)
    IN  <<PenaltyRatioNum(n) \div g, PenaltyRatioDen \div g>>

\* Denominator of the criteria of node n: the ratio's, to the fourth power.
CriteriaDenNext(n) ==
    LET d == TPenaltyRatio(n)[2] IN d * d * d * d

\* Lines 118-119: t_penalty = t_penalty * t_penalty;
\* criteria = max(max_dist - t_penalty * t_penalty, min_dist), as a
\* numerator over CriteriaDenNext(n).
CriteriaNext(n) ==
    LET r == TPenaltyRatio(n)[1]
    IN  Max2(MaxDistance * CriteriaDenNext(n) - r * r * r * r * One,
             MinDistance * CriteriaDenNext(n))

\* Line 126: cluster == -1 and node.dist <= criteria.
IsCutNext(cluster, n) ==
    cluster = -1 /\ Dist(n) * CriteriaDenNext(n) <= CriteriaNext(n)

\* Lines 106-135 of the next/ script: one call of traverse, up to its
\* recursive calls.
TraverseCallNext ==
    /\ pc = "traverse"
    /\ stack # <<>>
    /\ LET f == Head(stack)
           n == f.node
       IN  IF IsLeaf(n)
           THEN /\ clusters' = [clusters EXCEPT ![n] = f.cluster]
                /\ probs' = [probs EXCEPT ![n] = f.prob]
                /\ colors' = [k \in DOMAIN colors \union {n} |->
                                 IF k = n THEN f.color ELSE colors[k]]
                /\ nodes' = nodes + 1
                /\ stack' = Tail(stack)
                /\ UNCHANGED <<cluster_index, cuts>>
           ELSE LET cut == IsCutNext(f.cluster, n)
                    c == IF cut THEN cluster_index ELSE f.cluster
                    p == IF cut THEN CutProb(n) ELSE f.prob
                    col == IF cut THEN "#000000" ELSE f.color
                IN  /\ cluster_index' = IF cut THEN cluster_index + 1 ELSE cluster_index
                    /\ cuts' = IF cut
                               THEN cuts \union {[node |-> n, cluster |-> c, prob |-> p]}
                               ELSE cuts
                    /\ colors' = [k \in DOMAIN colors \union {n} |->
                                     IF k = n THEN col ELSE colors[k]]
                    /\ stack' = ChildCalls(n, c, p, col) \o Tail(stack)
                    /\ UNCHANGED <<clusters, probs, nodes>>
    /\ pc' = IF stack' = <<>> THEN "emit" ELSE "traverse"
    /\ runs' = IF stack' = <<>> THEN Append(runs, <<clusters', probs'>>) ELSE runs
    /\ UNCHANGED <<inputs, gui, sizestate, distances, condensed_distances,
                   avg_size, linkages, members, tree_examples, output>>

NextVariant ==
    \/ ComputeDistancesNext
    \/ PenaltyLoopNext
    \/ LinkageCall
    \/ LinkageMerge
    \/ PreTraverse
    \/ TraverseCallNext
    \/ Emit

SpecNext == Init /\ [][NextVariant]_vars

\* The nodes that the Selector of utils/embeddings cuts on the tree of the
\* current run: those within their criteria with no ancestor within its own.
UtilsCutNodes ==
    {a \in InternalNodes :
        /\ SatisfiesCriteria(a)
        /\ \A b \in InternalAbove(a) : ~SatisfiesCriteria(b)}

\* The cluster ids that utils/embeddings prints for the tree of the current
\* run: the cut nodes numbered in pre-order.
UtilsClusters ==
    [i \in Idx(Items) |->
        IF TopmostSatisfying(i) = {} THEN -1
        ELSE LET a == CHOOSE x \in TopmostSatisfying(i) : TRUE
             IN  ClusterIndexAtStart
                   + Cardinality({b \in UtilsCutNodes :
                                     PreOrderPos(b) < PreOrderPos(a)})]

\* The probabilities that utils/embeddings prints for the tree of the
\* current run.
UtilsProbs ==
    [i \in Idx(Items) |->
        IF TopmostSatisfying(i) = {} THEN One
        ELSE CutProb(CHOOSE x \in TopmostSatisfying(i) : TRUE)]

\* The result of utils/embeddings is the one computed from the cut nodes.
UtilsOutputAsComputed ==
    pc = "done" => output = <<UtilsClusters, UtilsProbs>>

\* C27: the next/ variant computes the penalty terms of the other overlap
\* variants - its Adjuster adds delta^2 * (maxDistance - minDistance) to
\* each qualifying entry - and it prints the cluster ids and probabilities
\* that utils/embeddings prints for the same tree, example sets and
\* thresholds.
C27_NextVariantEquivalent ==
    /\ (PenaltyDone /\ Items > 0) =>
          \A i, j \in Idx(Items) :
              LET raw == RawDistances[i][j]
                  num == CountMergedNum(i, j)
                  den == CountMergedDen(i, j)
              IN  IF raw > MinDistance
                  THEN (distances[i][j] - raw * NextScale) * den * den
                           = num * num * Penalty * NextScale
                  ELSE distances[i][j] = raw * NextScale
    /\ pc = "done" => output = <<UtilsClusters, UtilsProbs>>

\* The items that carry cluster id c in the result arrays.
ItemsOf(c) == {i \in Idx(Items) : clusters[i] = c}

\* C28: after the Selector has run no cut node is an ancestor of another,
\* the items of every cluster id are exactly the leaves of one internal
\* node (the node cut for that id), every cluster has at least 2 items, and
\* there are at most floor(N / 2) clusters.
C28_ClustersAreDisjointSubtrees ==
    Traversed =>
        /\ \A c, d \in cuts :
              c.node # d.node => c.node \notin InternalUnder(d.node)
        /\ \A id \in IdsPresent :
              /\ \E c \in cuts : c.cluster = id /\ ItemsOf(id) = Leaves(c.node)
              /\ Cardinality({a \in InternalNodes : Leaves(a) = ItemsOf(id)}) = 1
              /\ Cardinality(ItemsOf(id)) >= 2
        /\ Cardinality(IdsPresent) <= Items \div 2

\* Witness of C28: the Selector has cut a node that has an internal
\* descendant within its own criteria, and has left an item unclustered.
C28_Witness ==
    /\ pc = "done"
    /\ \E c \in cuts :
          \E b \in InternalUnder(c.node) \ {c.node} : SatisfiesCriteria(b)
    /\ \E i \in Idx(Items) : clusters[i] = -1

\* The Selector has made as many clusters as N items allow.
MostClusters ==
    /\ pc = "done"
    /\ Items = MaxItems
    /\ Cardinality(IdsPresent) = Items \div 2

\* The annotation size of a node of the overlap variants: the number of
\* examples of a leaf, of the union of the examples under an internal node.
AnnotationSize(n) ==
    IF IsLeaf(n) THEN Cardinality(examples[n]) ELSE Cardinality(tree_examples[n])

\* The children of an internal node.
Children(a) == {Left(a), Right(a)}

\* C29: a node's annotation size is never smaller than a child's, criteria
\* never increases and the merge distance never decreases from an internal
\* child to its parent, every internal descendant of a node within its
\* criteria is within its own, and the clusters are exactly the subtrees of
\* the topmost nodes within their criteria.
C29_CutConditionInherited ==
    LET within == {a \in InternalNodes : SatisfiesCriteria(a)}
    IN  /\ Annotated =>
              \A a \in InternalNodes :
                  /\ \A ch \in Children(a) :
                        /\ AnnotationSize(ch) <= AnnotationSize(a)
                        /\ ~IsLeaf(ch) =>
                              /\ Criteria(a) <= Criteria(ch)
                              /\ Dist(ch) <= Dist(a)
                  /\ a \in within => InternalUnder(a) \subseteq within
        /\ Traversed =>
              /\ {c.node : c \in cuts} =
                    {a \in within : InternalAbove(a) \intersect within = {}}
              /\ \A c \in cuts :
                    Leaves(c.node) = {i \in Idx(Items) : clusters[i] = c.cluster}
              /\ \A i \in Idx(Items) :
                    clusters[i] # -1 => \E c \in cuts : i \in Leaves(c.node)

\* Witness of C29: a node was cut whose criteria is strictly below that of
\* an internal child of it, on a run with MinDistance < MaxDistance in which
\* the root is beyond its criteria.
C29_Witness ==
    /\ pc = "done"
    /\ MinDistance < MaxDistance
    /\ ~SatisfiesCriteria(Root)
    /\ \E c \in cuts :
          \E ch \in Children(c.node) :
              /\ ~IsLeaf(ch)
              /\ Criteria(c.node) < Criteria(ch)
              /\ AnnotationSize(ch) < AnnotationSize(c.node)

\* The annotation size of a node of the size variant: the size of a leaf,
\* the summed sizes of the leaves under an internal node.
AnnotationSizeSize(n) == IF IsLeaf(n) THEN sizes[n] ELSE leaf_sizes[n]

\* The statement of C29 on the size variant.
SizeCutConditionInherited ==
    /\ Annotated =>
          \A a \in InternalNodes :
              /\ \A ch \in Children(a) :
                    /\ AnnotationSizeSize(ch) <= AnnotationSizeSize(a)
                    /\ ~IsLeaf(ch) =>
                          /\ CriteriaSize(a) <= CriteriaSize(ch)
                          /\ Dist(ch) <= Dist(a)
              /\ Dist(a) <= CriteriaSize(a) =>
                    \A b \in InternalUnder(a) : Dist(b) <= CriteriaSize(b)
    /\ Traversed =>
          {c.node : c \in cuts} =
              {a \in InternalNodes :
                  /\ Dist(a) <= CriteriaSize(a)
                  /\ \A b \in InternalAbove(a) : Dist(b) > CriteriaSize(b)}

\* The number of clicks inside the histogram handled so far.
InsideClickCount == Cardinality(InsideClicks)

\* The handler of the step's event left the thresholds, the alternation, the
\* tables and the open window as they were.
NothingChanged ==
    /\ UNCHANGED <<MaxDistance, MinDistance, update_max, max_table_data,
                   min_table_data>>
    /\ pc' = "calibrating"

\* One event of the calibration window, as C30 reads it.
MarkersAlternate ==
    (pc = "calibrating" /\ Len(events') = Len(events) + 1) =>
        LET e == events'[Len(events')]
            k == InsideClickCount + 1
        IN  /\ (e.type = "click" /\ e.inaxes /\ k % 2 = 1) =>
                  /\ update_max
                  /\ MaxDistance' = Max2(Round2(e.xdata), MinDistance)
                  /\ MinDistance' = MinDistance
                  /\ ~update_max'
            /\ (e.type = "click" /\ e.inaxes /\ k % 2 = 0) =>
                  /\ ~update_max
                  /\ MinDistance' = Min2(Round2(e.xdata), MaxDistance)
                  /\ MaxDistance' = MaxDistance
                  /\ update_max'
            /\ (e.type = "click" /\ ~e.inaxes) => NothingChanged
            /\ (e.type = "key" /\ e.key # "enter") => NothingChanged

\* C30: the k-th click inside the histogram moves maxDistance when k is odd
\* and minDistance when k is even and leaves the other marker as it is; a
\* click outside the histogram and a key other than Enter change neither
\* threshold and do not advance the alternation.
C30_MarkersAlternate == [][MarkersAlternate]_vars

\* Witness of C30: a click inside the histogram, one outside it and a second
\* one inside, which moved the min marker and left the max marker where the
\* first click had put it.
C30_Witness ==
    /\ pc = "calibrating"
    /\ Len(events) = 3
    /\ InsideClicks = {1, 3}
    /\ events[2].type = "click"
    /\ update_max
    /\ MaxDistance = Round2(events[1].xdata)
    /\ MinDistance = Round2(events[3].xdata)
    /\ MinDistance < MaxDistance

====
